---- MODULE Spec2Model ----
(***************************************************************************)
(* Model of the pre-parameter pool of prime-service:                       *)
(*   internal/pool/manager.go   (Manager, refillPool, saveToDisk, ...)     *)
(*   internal/server/server.go  (Server.GetPreParams, GetPoolStatus)       *)
(* Bundles are natural numbers; Go slices are modelled with their backing  *)
(* arrays, offsets, lengths and capacities, because GetPreParams hands out *)
(* a sub-slice of the pool's backing array.                                *)
(***************************************************************************)
EXTENDS Integers, Sequences, FiniteSets, Bags, TLC

(* ---------------------------- bounds ----------------------------------- *)
\* Events the environment produces in one behaviour: requests received plus
\* generator calls that return (with a bundle or with an error).
MaxEvents == 4

(* ---------------------- program constants ------------------------------ *)
MaxCount == 100        \* server.go: count > 100 is InvalidArgument
CPULimit == 3          \* manager.go: runtime.NumCPU() <= 3 clamps workers

Nil == 0               \* nil pointer / empty array slot

Callers  == {1, 2}     \* gRPC handler goroutines
Workers  == {1, 2}     \* refill worker goroutines

Min(a, b) == IF a < b THEN a ELSE b

(* --------------------------- Go slices --------------------------------- *)
\* A slice header: a = index of the backing array in heap (0: none),
\* o = offset of element 0, n = len, c = cap.
NilSlice == [a |-> 0, o |-> 0, n |-> 0, c |-> 0]

\* The elements s[0..len-1], read from the backing array.
Elems(h, s) == [i \in 1..s.n |-> h[s.a][s.o + i]]

\* s[:k]  (capacity is kept: the result can grow into the same array)
Prefix(s, k) == [s EXCEPT !.n = k]

\* s[k:]
Suffix(s, k) == [s EXCEPT !.o = s.o + k, !.n = s.n - k, !.c = s.c - k]

\* Capacity chosen by append when the array is full (runtime growslice,
\* small slices: double, or the needed length if that is larger).
GrowCap(oldcap, newlen) == IF newlen > 2 * oldcap THEN newlen ELSE 2 * oldcap

\* make([]T, 0, k): a fresh array of k empty slots
MakeSlice(h, k) ==
    IF k = 0 THEN [h |-> h, s |-> NilSlice]
    ELSE [h |-> Append(h, [i \in 1..k |-> Nil]),
          s |-> [a |-> Len(h) + 1, o |-> 0, n |-> 0, c |-> k]]

\* append(s, x): in place when len < cap, otherwise into a fresh array.
GoAppend(h, s, x) ==
    IF s.n < s.c
    THEN [h |-> [h EXCEPT ![s.a][s.o + s.n + 1] = x],
          s |-> [s EXCEPT !.n = s.n + 1]]
    ELSE LET nc  == GrowCap(s.c, s.n + 1)
             arr == [i \in 1..nc |->
                        IF i <= s.n THEN h[s.a][s.o + i]
                        ELSE IF i = s.n + 1 THEN x ELSE Nil]
         IN  [h |-> Append(h, arr),
              s |-> [a |-> Len(h) + 1, o |-> 0, n |-> s.n + 1, c |-> nc]]

\* The garbage collector: an array no slice refers to any more is freed (its
\* slot in heap is left empty, trailing empty slots are dropped).
RECURSIVE Trim(_)
Trim(h) == IF h # <<>> /\ h[Len(h)] = <<>> THEN Trim(SubSeq(h, 1, Len(h) - 1)) ELSE h

Collect(h, roots) ==
    Trim([i \in 1..Len(h) |-> IF \E s \in roots : s.a = i THEN h[i] ELSE <<>>])

(* --------------------------- configuration ----------------------------- *)
\* The deployments examined: the SimpleConfig handed to NewManager (a zero
\* field means "unset"), what the pool directory holds at construction, and
\* the number of CPUs the host reports.  The pool file is described by the
\* bundles its entries decode to (Nil: an entry that is null or has no
\* paillier_key; a negative number: an entry that has a paillier_key but no
\* n_tildei) and by its condition: "json" (a readable JSON document), "absent",
\* "unreadable" or "unparseable".
Cfg(min, max, thr, bits, conc, save, bg) ==
    [MinPoolSize |-> min, MaxPoolSize |-> max, RefillThreshold |-> thr,
     PrimeBitSize |-> bits, MaxConcurrent |-> conc, AutoSave |-> save,
     BackgroundGen |-> bg]

Deployments ==
    { [cfg |-> Cfg(2, 2, 1, 0, 2, FALSE, FALSE), file |-> <<>>,       fstate |-> "json", cpus |-> 4],
      [cfg |-> Cfg(2, 2, 1, 0, 2, FALSE, FALSE), file |-> <<1, Nil>>, fstate |-> "json", cpus |-> 4],
      [cfg |-> Cfg(2, 2, 1, 0, 2, FALSE, FALSE), file |-> <<1, 2>>,   fstate |-> "json", cpus |-> 4],
      [cfg |-> Cfg(2, 2, 1, 2048, 1, TRUE, FALSE), file |-> <<1, Nil>>, fstate |-> "json", cpus |-> 4],
      [cfg |-> Cfg(2, 2, 1, 0, 2, FALSE, TRUE),  file |-> <<1, Nil>>, fstate |-> "json", cpus |-> 2] }

\* The deployments followed through shutdown and the next construction on the
\* same pool directory.
LifeDeployments ==
    { [cfg |-> Cfg(2, 2, 1, 2048, 1, TRUE, FALSE),  file |-> <<1, Nil>>,   fstate |-> "json",        cpus |-> 4],
      [cfg |-> Cfg(2, 2, 1, 0, 1, FALSE, FALSE),    file |-> <<1, -2, 3>>, fstate |-> "json",        cpus |-> 4],
      [cfg |-> Cfg(2, 2, 1, 0, 1, FALSE, FALSE),    file |-> <<1, 2, 3>>,  fstate |-> "json",        cpus |-> 4],
      [cfg |-> Cfg(1, 1, 1, 0, 1, FALSE, TRUE),     file |-> <<>>,         fstate |-> "absent",      cpus |-> 4],
      [cfg |-> Cfg(1, 1, 1, 0, 1, FALSE, FALSE),    file |-> <<>>,         fstate |-> "unreadable",  cpus |-> 4],
      [cfg |-> Cfg(1, 1, 1, 0, 1, FALSE, FALSE),    file |-> <<1>>,        fstate |-> "unparseable", cpus |-> 4] }

\* The deployments whose background refill is followed on its own: background
\* generation on, no request, no shutdown, a generator that always succeeds.
\* NewManager accepts each of these configurations.
RefillDeployments ==
    { [cfg |-> Cfg(2, 2, 1, 0, 1, FALSE, TRUE), file |-> <<>>, fstate |-> "absent", cpus |-> 4],
      [cfg |-> Cfg(1, 2, 1, 0, 1, FALSE, TRUE), file |-> <<>>, fstate |-> "absent", cpus |-> 4],
      [cfg |-> Cfg(2, 1, 1, 0, 1, FALSE, TRUE), file |-> <<>>, fstate |-> "absent", cpus |-> 4] }

PoolFiles == { d.file : d \in Deployments \cup LifeDeployments \cup RefillDeployments }

(* defaults applied by NewManager to zero fields *)
DefaultMinPoolSize     == 10
DefaultMaxPoolSize     == 20
DefaultRefillThreshold == 5
DefaultPrimeBitSize    == 1024
DefaultMaxConcurrent   == 4

\* NewManager: fill in defaults; nothing else is validated.
NewManagerConfig(cfg) ==
    [cfg EXCEPT
       !.MinPoolSize     = IF @ = 0 THEN DefaultMinPoolSize ELSE @,
       !.MaxPoolSize     = IF @ = 0 THEN DefaultMaxPoolSize ELSE @,
       !.RefillThreshold = IF @ = 0 THEN DefaultRefillThreshold ELSE @,
       !.PrimeBitSize    = IF @ = 0 THEN DefaultPrimeBitSize ELSE @,
       !.MaxConcurrent   = IF @ = 0 THEN DefaultMaxConcurrent ELSE @]

(* ---------------------------- prime_pool.json -------------------------- *)
\* (An encoding that leaves n_tildei out.)
MarshalWithoutNTilde(b) ==
    [paillier_key |-> IF b < 0 THEN 0 - b ELSE b, n_tildei |-> Nil]

\* json.MarshalIndent of one *PreParamsData: the entry's paillier_key and
\* n_tildei fields (the other large-integer fields are encoded like n_tildei).
\* A field that is nil in memory is null in the file.
Marshal(b) ==
    [paillier_key |-> IF b < 0 THEN 0 - b ELSE b,
     n_tildei     |-> IF b > 0 THEN b ELSE Nil]

\* json.Unmarshal of one entry.  An entry without paillier_key decodes to a
\* bundle loadFromDisk drops exactly as it drops a null entry: both are Nil here.
Unmarshal(e) ==
    IF e.paillier_key = Nil THEN Nil
    ELSE IF e.n_tildei = Nil THEN 0 - e.paillier_key
    ELSE e.paillier_key

MarshalFile(q)   == [i \in 1..Len(q) |-> Marshal(q[i])]
UnmarshalFile(f) == [i \in 1..Len(f) |-> Unmarshal(f[i])]

\* loadFromDisk: keep the entries that are not nil and have a PaillierKey,
\* in file order, in a fresh array whose capacity is the number of entries.
ValidParams(f) == SelectSeq(f, LAMBDA e : e # Nil)

LoadedArray(f) ==
    [i \in 1..Len(f) |-> IF i <= Len(ValidParams(f)) THEN ValidParams(f)[i] ELSE Nil]

\* (A load that decodes the file's content whatever reading it gave.)
LoadFromDiskUnchecked(fstate, f) ==
    LET ptrs == UnmarshalFile(f)
    IN  [heap      |-> IF Len(ptrs) = 0 THEN <<>> ELSE << LoadedArray(ptrs) >>,
         preParams |-> IF Len(ptrs) = 0 THEN NilSlice
                       ELSE [a |-> 1, o |-> 0, n |-> Len(ValidParams(ptrs)),
                             c |-> Len(ptrs)],
         loaded    |-> Len(ValidParams(ptrs))]

\* loadFromDisk as a whole: a file that is absent, unreadable or unparseable is
\* logged and leaves the empty pool NewManager made.
LoadFromDisk(fstate, f) ==
    LET ptrs == IF fstate = "json" THEN UnmarshalFile(f) ELSE <<>>
    IN  [heap      |-> IF Len(ptrs) = 0 THEN <<>> ELSE << LoadedArray(ptrs) >>,
         preParams |-> IF Len(ptrs) = 0 THEN NilSlice
                       ELSE [a |-> 1, o |-> 0, n |-> Len(ValidParams(ptrs)),
                             c |-> Len(ptrs)],
         loaded    |-> Len(ValidParams(ptrs))]

\* Identity of the k-th bundle the generator produces (distinct from every
\* bundle a pool file holds).
FileIds == UNION { { f[i] : i \in 1..Len(f) } : f \in PoolFiles } \cup { Nil }
BundleId(k) == Cardinality(FileIds) + k

(* ------------------------------ state ---------------------------------- *)
VARIABLES
    config,          \* m.config after defaults
    numCPU,          \* runtime.NumCPU()
    heap,            \* backing arrays of all slices
    preParams,       \* m.preParams (slice header)
    totalGenerated,  \* m.totalGenerated
    totalServed,     \* m.totalServed
    isGenerating,    \* m.isGenerating
    isSaving,        \* m.isSaving
    poolFile,        \* the pre_params entries of prime_pool.json
    fileState,       \* condition of prime_pool.json
    stopCh,          \* m.stopCh: "open" or "closed"
    mainPc,          \* the main goroutine: serving, in Stop, or exited
    started,         \* Start has run
    startupDelay,    \* TRUE while time.Since(startTime) < 10s
    crashed,         \* a goroutine panicked: the process is gone
    call,            \* per gRPC handler: Server.GetPreParams in progress
    refill,          \* per refillPool invocation (slot 1: the ticker goroutine)
    rounds,          \* per refill round: needed, paramsCh, errorCh
    worker,          \* per refill worker goroutine
    saver,           \* per "go m.saveToDisk()" goroutine
    status,          \* the map a GetPoolStatus call has just returned
    genCount,        \* history: generator calls that returned successfully
    loaded,          \* history: bundles loaded from disk at construction
    events,          \* history: requests received and generator calls returned
    served,          \* history: bag of the bundles handed to callers
    discards         \* history: bundles discarded at max capacity

vars == << config, numCPU, heap, preParams, totalGenerated, totalServed,
           isGenerating, isSaving, poolFile, fileState, stopCh, mainPc,
           started, startupDelay, crashed,
           call, refill, rounds, worker, saver, status,
           genCount, loaded, events, served, discards >>

Refillers == {1, 2}    \* 1: backgroundGeneration; others: go m.refillPool()
Savers    == {1}       \* go m.saveToDisk() goroutines

\* The bundles in the pool, oldest first.
Items == Elems(heap, preParams)

\* The bag of the elements of a sequence.
SeqBag(q) == [b \in { q[i] : i \in 1..Len(q) } |-> Cardinality({ i \in 1..Len(q) : q[i] = b })]

\* The slices that keep arrays alive: the pool's and every call's result.
Roots(pp, cl) == { pp } \cup { cl[c].result : c \in Callers }

IdleCall ==
    [pc |-> "idle", count |-> 0, result |-> NilSlice,
     taken |-> <<>>, gens |-> <<>>, reg |-> 0, b |-> Nil, err |-> "",
     delivered |-> <<>>, trig |-> FALSE]

IdleRefill == [pc |-> "idle", rid |-> 0, generated |-> 0]
IdleWorker == [pc |-> "idle", rid |-> 0, reg |-> 0, b |-> Nil]
NoStatus   == [pool_size |-> 0, min_size |-> 0, is_generating |-> FALSE,
               total_generated |-> 0, total_served |-> 0, valid |-> FALSE]

\* The state NewManager leaves: defaults applied, pool loaded from disk.
InitFrom(d) ==
    /\ config = NewManagerConfig(d.cfg)
    /\ numCPU = d.cpus
    /\ poolFile = MarshalFile(d.file)
    /\ fileState = d.fstate
    /\ heap = LoadFromDisk(d.fstate, MarshalFile(d.file)).heap
    /\ preParams = LoadFromDisk(d.fstate, MarshalFile(d.file)).preParams
    /\ loaded = LoadFromDisk(d.fstate, MarshalFile(d.file)).loaded
    /\ totalGenerated = 0
    /\ totalServed = 0
    /\ isGenerating = FALSE
    /\ isSaving = FALSE
    /\ stopCh = "open"
    /\ mainPc = "serving"
    /\ started = FALSE
    /\ startupDelay = TRUE
    /\ crashed = FALSE
    /\ call = [c \in Callers |-> IdleCall]
    /\ refill = [r \in Refillers |-> IdleRefill]
    /\ rounds = <<>>
    /\ worker = [w \in Workers |-> IdleWorker]
    /\ saver = [s \in Savers |-> "idle"]
    /\ status = NoStatus
    /\ genCount = 0
    /\ events = 0
    /\ served = EmptyBag
    /\ discards = 0

Init == \E d \in Deployments : InitFrom(d)

(* ------------------------ goroutine creation --------------------------- *)
\* go m.refillPool(): the goroutine takes the first free slot after the
\* ticker's; with no free slot the goroutine is one that never gets to run.
FreeRefillers(rf) == { r \in Refillers \ {1} : rf[r].pc = "idle" }
GoRefillPool(rf) ==
    IF FreeRefillers(rf) = {} THEN rf
    ELSE LET r == CHOOSE x \in FreeRefillers(rf) : \A y \in FreeRefillers(rf) : x <= y
         IN  [rf EXCEPT ![r].pc = "enter"]

\* go m.saveToDisk()
FreeSavers(sv) == { s \in Savers : sv[s] = "idle" }
GoSaveToDisk(sv) ==
    IF FreeSavers(sv) = {} THEN sv
    ELSE LET s == CHOOSE x \in FreeSavers(sv) : \A y \in FreeSavers(sv) : x <= y
         IN  [sv EXCEPT ![s] = "enter"]

Running == started /\ ~crashed /\ mainPc # "exited"

\* (A save scheduled whatever the configuration says.)
AutoSaveAlways == TRUE

\* "if m.config.AutoSave" in front of the saves GetPreParams and refillPool
\* schedule.
AutoSaveEnabled == config.AutoSave

\* A saveToDisk call holds m.mu.RLock: from its RLock until the deferred
\* RUnlock, which runs after the file is written.  Meanwhile m.mu.Lock blocks.
MuReadHeld ==
    \/ \E s \in Savers : saver[s] = "write"
    \/ \E r \in Refillers : refill[r].pc = "write"
    \/ mainPc = "write"

\* The process ends: everything it held in memory is gone, every goroutine
\* with it; the pool directory stays as it is.
ProcessGone ==
    /\ mainPc' = "exited"
    /\ heap' = <<>>
    /\ preParams' = NilSlice
    /\ loaded' = 0
    /\ totalGenerated' = 0
    /\ totalServed' = 0
    /\ isGenerating' = FALSE
    /\ isSaving' = FALSE
    /\ stopCh' = "open"
    /\ started' = FALSE
    /\ startupDelay' = TRUE
    /\ call' = [c \in Callers |-> IdleCall]
    /\ refill' = [r \in Refillers |-> IdleRefill]
    /\ rounds' = <<>>
    /\ worker' = [w \in Workers |-> IdleWorker]
    /\ saver' = [s \in Savers |-> "idle"]
    /\ status' = NoStatus
    /\ UNCHANGED << config, numCPU, genCount, events, served, discards >>

\* A run-time panic in a goroutine ends the process.
Panic ==
    /\ crashed' = TRUE
    /\ ProcessGone
    /\ UNCHANGED << poolFile, fileState >>

(* ------------------------------ Start ---------------------------------- *)
\* Manager.Start: initial fill when the pool is below the threshold.  (The
\* ticker goroutine it starts is refiller slot 1, see Tick.)
Start ==
    /\ ~started
    /\ started' = TRUE
    /\ refill' = IF preParams.n < config.RefillThreshold
                 THEN GoRefillPool(refill) ELSE refill
    /\ status' = NoStatus
    /\ UNCHANGED << config, numCPU, fileState, stopCh, mainPc, heap, preParams, totalGenerated, totalServed,
                    isGenerating, isSaving, poolFile, startupDelay, crashed,
                    call, rounds, worker, saver, genCount, loaded, events, served, discards >>

\* The 10 second startup delay elapses.
DelayElapses ==
    /\ startupDelay
    /\ startupDelay' = FALSE
    /\ status' = NoStatus
    /\ UNCHANGED << config, numCPU, fileState, stopCh, mainPc, heap, preParams, totalGenerated, totalServed,
                    isGenerating, isSaving, poolFile, started, crashed,
                    call, refill, rounds, worker, saver, genCount, loaded, events, served, discards >>

(* --------------------------- GetPreParams ------------------------------ *)
\* Manager.GetPreParams, first critical section (m.mu held): refill trigger,
\* count normalisation, take from the front, totalServed.
\* (A count that is used as given.)
RequestedAsGiven(n) == n

\* The count a request asks for after the default is applied: 0 stands for 1
\* (server.go 36-38, and again manager.go 179-181).
Requested(n) == IF n = 0 THEN 1 ELSE n

\* (A take that ignores the requested count and empties the pool.)
TakeAvailable(count, available) == available

TakeCount(count, available) == Min(count, available)

PoolTake(c, n, count) ==
    LET cnt       == Requested(count)
        available == preParams.n
        take      == TakeCount(cnt, available)
        made      == MakeSlice(heap, cnt)
        result    == IF available > 0 THEN Prefix(preParams, take) ELSE made.s
        remaining == cnt - result.n
        low       == preParams.n <= config.RefillThreshold
    IN  /\ preParams' = IF available > 0 THEN Suffix(preParams, take) ELSE preParams
        /\ totalServed' = totalServed + result.n
        /\ refill' = IF low THEN GoRefillPool(refill) ELSE refill
        /\ call' = [call EXCEPT ![c] =
                      [IdleCall EXCEPT !.pc = IF remaining > 0 THEN "gen" ELSE "ret",
                                       !.count = cnt,
                                       !.result = result,
                                       !.taken = Elems(heap, result),
                                       !.trig = low]]
        /\ heap' = Collect(IF available > 0 THEN heap ELSE made.h,
                           Roots(preParams', call'))

\* Server.GetPreParams up to and including the manager's first critical
\* section: default 0 to 1, reject count > 100, then take.  The request is
\* served by the first free handler; a handler that has returned keeps the
\* outcome of its last call (err, delivered) until its next one.
\* (A limit check that is off by one.)
CountValidOffByOne(count) == count <= MaxCount + 1

CountValid(count) == count <= MaxCount

ServerGetPreParams(c, n) ==
    /\ Running
    /\ call[c].pc = "idle"
    /\ \A d \in Callers : d < c => call[d].pc # "idle"
    /\ events < MaxEvents
    /\ events' = events + 1
    /\ LET count == Requested(n)
       IN  IF ~CountValid(count)
           THEN /\ call' = [call EXCEPT ![c] =
                              [IdleCall EXCEPT !.err = "InvalidArgument"]]
                /\ heap' = Collect(heap, Roots(preParams, call'))
                /\ UNCHANGED << preParams, totalServed, refill >>
           ELSE ~MuReadHeld /\ PoolTake(c, n, count)
    /\ status' = NoStatus
    /\ UNCHANGED << config, numCPU, fileState, stopCh, mainPc, totalGenerated, isGenerating, isSaving,
                    poolFile, started, startupDelay, crashed, rounds, worker,
                    saver, genCount, loaded, served, discards >>

\* generateSinglePreParams, first half: the generator returns a bundle and
\* the caller loads m.totalGenerated (the increment is not synchronised).
CallGenerated(c) ==
    /\ Running
    /\ call[c].pc = "gen"
    /\ events < MaxEvents
    /\ events' = events + 1
    /\ genCount' = genCount + 1
    /\ call' = [call EXCEPT ![c].pc = "inc", ![c].b = BundleId(genCount + 1),
                            ![c].reg = totalGenerated]
    /\ status' = NoStatus
    /\ UNCHANGED << config, numCPU, fileState, stopCh, mainPc, heap, preParams, totalGenerated, totalServed,
                    isGenerating, isSaving, poolFile, started, startupDelay, crashed,
                    refill, rounds, worker, saver, loaded, served, discards >>

\* The generator fails: GetPreParams returns (nil, err), the server maps it
\* to Internal.
CallGenFailed(c) ==
    /\ Running
    /\ call[c].pc = "gen"
    /\ events < MaxEvents
    /\ events' = events + 1
    /\ call' = [call EXCEPT ![c] = [IdleCall EXCEPT !.err = "Internal"]]
    /\ heap' = Collect(heap, Roots(preParams, call'))
    /\ status' = NoStatus
    /\ UNCHANGED << config, numCPU, fileState, stopCh, mainPc, preParams, totalGenerated, totalServed,
                    isGenerating, isSaving, poolFile, started, startupDelay, crashed,
                    refill, rounds, worker, saver, genCount, loaded, served, discards >>

\* generateSinglePreParams, second half (store of m.totalGenerated), and
\* result = append(result, params).
CallAppend(c) ==
    /\ Running
    /\ call[c].pc = "inc"
    /\ totalGenerated' = call[c].reg + 1
    /\ LET ap == GoAppend(heap, call[c].result, call[c].b)
       IN  /\ call' = [call EXCEPT ![c].result = ap.s,
                                   ![c].gens = Append(@, call[c].b),
                                   ![c].b = Nil, ![c].reg = 0,
                                   ![c].pc = IF ap.s.n < call[c].count
                                             THEN "gen" ELSE "ret"]
           /\ heap' = Collect(ap.h, Roots(preParams, call'))
    /\ status' = NoStatus
    /\ UNCHANGED << config, numCPU, fileState, stopCh, mainPc, preParams, totalServed,
                    isGenerating, isSaving, poolFile, started, startupDelay, crashed,
                    refill, rounds, worker, saver, genCount, loaded, events, served, discards >>

\* Second critical section (m.totalServed += remaining, when a shortfall was
\* generated), auto-save goroutine, return, and the server's conversion of the
\* returned slice into the response, which reads the slice's elements.
CallReturn(c) ==
    /\ Running
    /\ call[c].pc = "ret"
    /\ call[c].count > Len(call[c].taken) => ~MuReadHeld
    /\ totalServed' = totalServed + (call[c].count - Len(call[c].taken))
    /\ saver' = IF AutoSaveEnabled THEN GoSaveToDisk(saver) ELSE saver
    /\ call' = [call EXCEPT ![c] =
                      [IdleCall EXCEPT !.delivered = Elems(heap, call[c].result)]]
    /\ served' = served (+) SeqBag(Elems(heap, call[c].result))
    /\ heap' = Collect(heap, Roots(preParams, call'))
    /\ status' = NoStatus
    /\ UNCHANGED << config, numCPU, fileState, stopCh, mainPc, preParams, totalGenerated,
                    isGenerating, isSaving, poolFile, started, startupDelay, crashed,
                    refill, rounds, worker, genCount, loaded, events, discards >>

(* --------------------------- GetPoolStatus ----------------------------- *)
\* The bit size the server writes into the response.
ServerPrimeBits == 1024

\* Server.GetPoolStatus: the response built from the manager's status map.
\* The pools map is the set of its entries; an entry's key "<bits>_true" is
\* the pair of the bit size and the safe-prime flag it spells.
ServerPoolStatus(st) ==
    [pools |-> { [key         |-> << ServerPrimeBits, TRUE >>,
                  bits        |-> ServerPrimeBits,
                  safe_prime  |-> TRUE,
                  available   |-> st.pool_size,
                  target_size |-> st.min_size,
                  generating  |-> IF st.is_generating THEN 1 ELSE 0] },
     total_generated |-> st.total_generated,
     total_served    |-> st.total_served]

GetPoolStatus ==
    /\ Running
    /\ status' = [pool_size |-> preParams.n, min_size |-> config.MinPoolSize,
                  is_generating |-> isGenerating,
                  total_generated |-> totalGenerated,
                  total_served |-> totalServed, valid |-> TRUE]
    /\ UNCHANGED << config, numCPU, fileState, stopCh, mainPc, heap, preParams, totalGenerated, totalServed,
                    isGenerating, isSaving, poolFile, started, startupDelay, crashed,
                    call, refill, rounds, worker, saver,
                    genCount, loaded, events, served, discards >>


(* ----------------------------- refillPool ------------------------------ *)
\* Number of workers a round starts (manager.go 317-328).
EffectiveConcurrent(maxConcurrent, cpus, needed) ==
    LET m1 == IF maxConcurrent <= 0 THEN 1 ELSE maxConcurrent
        m2 == IF m1 > 1 /\ cpus <= CPULimit THEN 1 ELSE m1
    IN  IF needed < m2 THEN needed ELSE m2

\* Channels nobody can use any more are garbage: a round without collector and
\* workers is dropped, and what an abandoned paramsCh holds is never received
\* (only its length matters, to the workers still sending to it).
Tidy(rs, rf, wk) ==
    Trim([i \in 1..Len(rs) |->
            IF \E r \in Refillers : rf[r].rid = i THEN rs[i]
            ELSE IF \E w \in Workers : wk[w].rid = i
                 THEN [rs[i] EXCEPT !.paramsCh = [j \in 1..Len(@) |-> Nil]]
                 ELSE <<>>])

FreeWorkers == { w \in Workers : worker[w].pc = "idle" }

\* The k lowest free worker slots.
FirstFree(k) == { w \in FreeWorkers : Cardinality({ v \in FreeWorkers : v < w }) < k }

\* The ticker of backgroundGeneration fires: refill when at or below the
\* threshold (refillPool runs in the ticker goroutine itself).
Tick ==
    /\ Running
    /\ config.BackgroundGen
    /\ stopCh = "open"
    /\ refill[1].pc = "idle"
    /\ preParams.n <= config.RefillThreshold
    /\ refill' = [refill EXCEPT ![1].pc = "enter"]
    /\ status' = NoStatus
    /\ UNCHANGED << config, numCPU, fileState, stopCh, mainPc, heap, preParams, totalGenerated, totalServed,
                    isGenerating, isSaving, poolFile, started, startupDelay, crashed,
                    call, rounds, worker, saver, genCount, loaded, events, served, discards >>

\* (An entry that does not wait for the startup delay.)
RoundMayBeginAnyTime == ~isGenerating

\* (An entry that does not look at isGenerating.)
RoundMayBeginAfterDelay == ~startupDelay

\* refillPool entry: startup delay, then test-and-set of isGenerating.
RoundMayBegin == ~startupDelay /\ ~isGenerating

RefillEnter(r) ==
    /\ Running
    /\ refill[r].pc = "enter"
    /\ IF RoundMayBegin
       THEN /\ isGenerating' = TRUE
            /\ refill' = [refill EXCEPT ![r].pc = "size"]
       ELSE /\ refill' = [refill EXCEPT ![r] = IdleRefill]
            /\ UNCHANGED isGenerating
    /\ status' = NoStatus
    /\ UNCHANGED << config, numCPU, fileState, stopCh, mainPc, heap, preParams, totalGenerated, totalServed,
                    isSaving, poolFile, started, startupDelay, crashed,
                    call, rounds, worker, saver, genCount, loaded, events, served, discards >>

\* Read the pool size; return when it is at least MinPoolSize, otherwise
\* make the channels and start the workers.
RefillSize(r) ==
    /\ Running
    /\ refill[r].pc = "size"
    /\ LET currentSize == preParams.n
           needed      == config.MinPoolSize - currentSize
           k           == EffectiveConcurrent(config.MaxConcurrent, numCPU, needed)
       IN  IF currentSize >= config.MinPoolSize
           THEN /\ isGenerating' = FALSE
                /\ refill' = [refill EXCEPT ![r] = IdleRefill]
                /\ UNCHANGED << rounds, worker >>
           ELSE /\ Cardinality(FreeWorkers) >= k
                /\ rounds' = Append(rounds, [needed |-> needed, paramsCh |-> <<>>,
                                             errorCh |-> 0])
                /\ worker' = [w \in Workers |->
                                IF w \in FirstFree(k)
                                THEN [IdleWorker EXCEPT !.pc = "check",
                                                        !.rid = Len(rounds) + 1]
                                ELSE worker[w]]
                /\ refill' = [refill EXCEPT ![r].pc = "collect",
                                            ![r].rid = Len(rounds) + 1]
                /\ UNCHANGED isGenerating
    /\ status' = NoStatus
    /\ UNCHANGED << config, numCPU, fileState, stopCh, mainPc, heap, preParams, totalGenerated, totalServed,
                    isSaving, poolFile, started, startupDelay, crashed,
                    call, saver, genCount, loaded, events, served, discards >>

\* Worker loop head: return when stopCh is closed or the pool has enough, else
\* call the generator.
WorkerCheck(w) ==
    /\ Running
    /\ worker[w].pc = "check"
    /\ worker' = [worker EXCEPT ![w] =
                    IF stopCh = "closed" \/ preParams.n >= config.MinPoolSize
                    THEN IdleWorker ELSE [@ EXCEPT !.pc = "gen"]]
    /\ rounds' = Tidy(rounds, refill, worker')
    /\ status' = NoStatus
    /\ UNCHANGED << config, numCPU, fileState, stopCh, mainPc, heap, preParams, totalGenerated, totalServed,
                    isGenerating, isSaving, poolFile, started, startupDelay, crashed,
                    call, refill, saver, genCount, loaded, events, served, discards >>

\* generateSinglePreParams in a worker, first half (see CallGenerated).
WorkerGenerated(w) ==
    /\ Running
    /\ worker[w].pc = "gen"
    /\ events < MaxEvents
    /\ events' = events + 1
    /\ genCount' = genCount + 1
    /\ worker' = [worker EXCEPT ![w].pc = "inc", ![w].b = BundleId(genCount + 1),
                                ![w].reg = totalGenerated]
    /\ status' = NoStatus
    /\ UNCHANGED << config, numCPU, fileState, stopCh, mainPc, heap, preParams, totalGenerated, totalServed,
                    isGenerating, isSaving, poolFile, started, startupDelay, crashed,
                    call, refill, rounds, saver, loaded, served, discards >>

\* The generator fails in a worker: errorCh <- err; return.
WorkerGenFailed(w) ==
    /\ Running
    /\ worker[w].pc = "gen"
    /\ events < MaxEvents
    /\ events' = events + 1
    /\ worker' = [worker EXCEPT ![w] = IdleWorker]
    /\ rounds' = Tidy([rounds EXCEPT ![worker[w].rid].errorCh = @ + 1], refill, worker')
    /\ status' = NoStatus
    /\ UNCHANGED << config, numCPU, fileState, stopCh, mainPc, heap, preParams, totalGenerated, totalServed,
                    isGenerating, isSaving, poolFile, started, startupDelay, crashed,
                    call, refill, saver, genCount, loaded, served, discards >>

\* generateSinglePreParams in a worker, second half: store m.totalGenerated.
WorkerCount(w) ==
    /\ Running
    /\ worker[w].pc = "inc"
    /\ totalGenerated' = worker[w].reg + 1
    /\ worker' = [worker EXCEPT ![w].pc = "send", ![w].reg = 0]
    /\ status' = NoStatus
    /\ UNCHANGED << config, numCPU, fileState, stopCh, mainPc, heap, preParams, totalServed,
                    isGenerating, isSaving, poolFile, started, startupDelay, crashed,
                    call, refill, rounds, saver, genCount, loaded, events, served, discards >>

\* paramsCh <- params (buffered, capacity needed), then loop.
WorkerSend(w) ==
    /\ Running
    /\ worker[w].pc = "send"
    /\ Len(rounds[worker[w].rid].paramsCh) < rounds[worker[w].rid].needed
    /\ rounds' = [rounds EXCEPT ![worker[w].rid].paramsCh = Append(@, worker[w].b)]
    /\ worker' = [worker EXCEPT ![w].pc = "check", ![w].b = Nil]
    /\ status' = NoStatus
    /\ UNCHANGED << config, numCPU, fileState, stopCh, mainPc, heap, preParams, totalGenerated, totalServed,
                    isGenerating, isSaving, poolFile, started, startupDelay, crashed,
                    call, refill, saver, genCount, loaded, events, served, discards >>

\* genWg.Wait() has returned and both channels are closed.
Closed(rid) == \A w \in Workers : worker[w].pc = "idle" \/ worker[w].rid # rid

\* Collector, case err := <-errorCh with err != nil: log and return; the
\* deferred function clears isGenerating.
CollectError(r) ==
    /\ Running
    /\ refill[r].pc = "collect"
    /\ rounds[refill[r].rid].errorCh > 0
    /\ isGenerating' = FALSE
    /\ refill' = [refill EXCEPT ![r] = IdleRefill]
    /\ rounds' = Tidy(rounds, refill', worker)
    /\ status' = NoStatus
    /\ UNCHANGED << config, numCPU, fileState, stopCh, mainPc, heap, preParams, totalGenerated, totalServed,
                    isSaving, poolFile, started, startupDelay, crashed,
                    call, worker, saver, genCount, loaded, events, served, discards >>

\* (A deposit test that lets a full pool take one more.)
HasRoomWhenFull(size, max) == size <= max

\* Deposit test (m.mu held): is there room for one more bundle?
HasRoom(size, max) == size < max

\* Collector, case preParamsData := <-paramsCh: append under m.mu when the
\* pool is below MaxPoolSize (and schedule an auto-save), else discard.
CollectParam(r) ==
    /\ Running
    /\ refill[r].pc = "collect"
    /\ rounds[refill[r].rid].paramsCh # <<>>
    /\ ~MuReadHeld
    /\ rounds' = [rounds EXCEPT ![refill[r].rid].paramsCh = Tail(@)]
    /\ LET b  == Head(rounds[refill[r].rid].paramsCh)
           ap == GoAppend(heap, preParams, b)
       IN  IF HasRoom(preParams.n, config.MaxPoolSize)
           THEN /\ preParams' = ap.s
                /\ heap' = Collect(ap.h, Roots(ap.s, call))
                /\ refill' = [refill EXCEPT ![r].generated = @ + 1]
                /\ saver' = IF AutoSaveEnabled THEN GoSaveToDisk(saver) ELSE saver
                /\ UNCHANGED discards
           ELSE /\ discards' = discards + 1
                /\ UNCHANGED << heap, preParams, refill, saver >>
    /\ status' = NoStatus
    /\ UNCHANGED << config, numCPU, fileState, stopCh, mainPc, totalGenerated, totalServed,
                    isGenerating, isSaving, poolFile, started, startupDelay, crashed,
                    call, worker, genCount, loaded, events, served >>

\* Collector, paramsCh closed and drained: "done".  The completion log
\* divides by generated (integer division: a run-time panic when it is 0),
\* then the pool is saved when AutoSave is set.
CollectDone(r) ==
    /\ Running
    /\ refill[r].pc = "collect"
    /\ rounds[refill[r].rid].paramsCh = <<>>
    /\ Closed(refill[r].rid)
    /\ IF refill[r].generated = 0
       THEN Panic
       ELSE /\ IF AutoSaveEnabled
               THEN /\ refill' = [refill EXCEPT ![r] = [IdleRefill EXCEPT !.pc = "save"]]
                    /\ UNCHANGED isGenerating
               ELSE /\ refill' = [refill EXCEPT ![r] = IdleRefill]
                    /\ isGenerating' = FALSE
            /\ rounds' = Tidy(rounds, refill', worker)
            /\ status' = NoStatus
            /\ UNCHANGED << config, numCPU, fileState, stopCh, mainPc, heap, preParams,
                            totalGenerated, totalServed, isSaving, poolFile, started,
                            startupDelay, crashed, call, worker, saver, genCount, loaded,
                            events, served, discards >>

(* ----------------------------- saveToDisk ------------------------------ *)
\* (A save that does not look at isSaving.)
SaveAlwaysBegins == TRUE

\* saveToDisk entry: the test of isSaving under savingMu.
SaveMayBegin == ~isSaving

\* saveToDisk called at the end of a round: test-and-set of isSaving; when a
\* save is already running the call returns (and refillPool's deferred
\* function clears isGenerating).
RefillSaveEnter(r) ==
    /\ Running
    /\ refill[r].pc = "save"
    /\ IF SaveMayBegin
       THEN /\ isSaving' = TRUE
            /\ refill' = [refill EXCEPT ![r].pc = "write"]
            /\ UNCHANGED isGenerating
       ELSE /\ refill' = [refill EXCEPT ![r] = IdleRefill]
            /\ isGenerating' = FALSE
            /\ UNCHANGED isSaving
    /\ status' = NoStatus
    /\ UNCHANGED << config, numCPU, fileState, stopCh, mainPc, heap, preParams, totalGenerated, totalServed,
                    poolFile, started, startupDelay, crashed,
                    call, rounds, worker, saver, genCount, loaded, events, served, discards >>

\* Marshal m.preParams and write the file with m.mu read-held; the deferred
\* RUnlock runs first when saveToDisk returns.
RefillSaveWrite(r) ==
    /\ Running
    /\ refill[r].pc = "write"
    /\ poolFile' = MarshalFile(Items)
    /\ fileState' = "json"
    /\ refill' = [refill EXCEPT ![r].pc = "clear"]
    /\ status' = NoStatus
    /\ UNCHANGED << config, numCPU, stopCh, mainPc, heap, preParams, totalGenerated, totalServed,
                    isGenerating, isSaving, started, startupDelay, crashed,
                    call, rounds, worker, saver, genCount, loaded, events, served, discards >>

\* saveToDisk's other deferred function clears isSaving; refillPool returns and
\* its deferred function clears isGenerating.
RefillSaveClear(r) ==
    /\ Running
    /\ refill[r].pc = "clear"
    /\ isSaving' = FALSE
    /\ isGenerating' = FALSE
    /\ refill' = [refill EXCEPT ![r] = IdleRefill]
    /\ status' = NoStatus
    /\ UNCHANGED << config, numCPU, fileState, stopCh, mainPc, heap, preParams, totalGenerated, totalServed,
                    poolFile, started, startupDelay, crashed,
                    call, rounds, worker, saver, genCount, loaded, events, served, discards >>

\* saveToDisk in its own goroutine (go m.saveToDisk()).
SaverEnter(s) ==
    /\ Running
    /\ saver[s] = "enter"
    /\ IF SaveMayBegin
       THEN /\ isSaving' = TRUE
            /\ saver' = [saver EXCEPT ![s] = "write"]
       ELSE /\ saver' = [saver EXCEPT ![s] = "idle"]
            /\ UNCHANGED isSaving
    /\ status' = NoStatus
    /\ UNCHANGED << config, numCPU, fileState, stopCh, mainPc, heap, preParams, totalGenerated, totalServed,
                    isGenerating, poolFile, started, startupDelay, crashed,
                    call, refill, rounds, worker, genCount, loaded, events, served, discards >>

SaverWrite(s) ==
    /\ Running
    /\ saver[s] = "write"
    /\ poolFile' = MarshalFile(Items)
    /\ fileState' = "json"
    /\ saver' = [saver EXCEPT ![s] = "clear"]
    /\ status' = NoStatus
    /\ UNCHANGED << config, numCPU, stopCh, mainPc, heap, preParams, totalGenerated, totalServed,
                    isGenerating, isSaving, started, startupDelay, crashed,
                    call, refill, rounds, worker, genCount, loaded, events, served, discards >>

\* The deferred function that clears isSaving (after the deferred RUnlock).
SaverClear(s) ==
    /\ Running
    /\ saver[s] = "clear"
    /\ isSaving' = FALSE
    /\ saver' = [saver EXCEPT ![s] = "idle"]
    /\ status' = NoStatus
    /\ UNCHANGED << config, numCPU, fileState, stopCh, mainPc, heap, preParams, totalGenerated, totalServed,
                    isGenerating, poolFile, started, startupDelay, crashed,
                    call, refill, rounds, worker, genCount, loaded, events, served, discards >>

(* ------------------------------ shutdown ------------------------------- *)
\* Manager.Stop, run by main when the signal arrives (the gRPC server is not
\* stopped and keeps serving meanwhile): close(m.stopCh) and stop the ticker.
Stop ==
    /\ Running
    /\ mainPc = "serving"
    /\ stopCh' = "closed"
    /\ mainPc' = "save"
    /\ status' = NoStatus
    /\ UNCHANGED << config, numCPU, fileState, heap, preParams, totalGenerated, totalServed,
                    isGenerating, isSaving, poolFile, started, startupDelay, crashed,
                    call, refill, rounds, worker, saver, genCount, loaded, events, served, discards >>

\* Stop's m.saveToDisk(), entry: when a save is running the call returns, Stop
\* returns, main returns and the process exits.
StopSaveEnter ==
    /\ Running
    /\ mainPc = "save"
    /\ IF SaveMayBegin
       THEN /\ isSaving' = TRUE
            /\ mainPc' = "write"
            /\ status' = NoStatus
            /\ UNCHANGED << config, numCPU, fileState, stopCh, heap, preParams,
                            totalGenerated, totalServed, isGenerating, poolFile, started,
                            startupDelay, crashed, call, refill, rounds, worker, saver,
                            genCount, loaded, events, served, discards >>
       ELSE /\ ProcessGone
            /\ UNCHANGED << poolFile, fileState, crashed >>

\* Stop's m.saveToDisk(), write; then Stop and main return: the process exits.
StopSaveWrite ==
    /\ Running
    /\ mainPc = "write"
    /\ poolFile' = MarshalFile(Items)
    /\ fileState' = "json"
    /\ ProcessGone
    /\ UNCHANGED crashed

\* A worker blocked in "select { case paramsCh <- params: case <-m.stopCh }"
\* takes the stop case: it returns and its bundle is dropped.
WorkerStopped(w) ==
    /\ Running
    /\ worker[w].pc = "send"
    /\ stopCh = "closed"
    /\ worker' = [worker EXCEPT ![w] = IdleWorker]
    /\ rounds' = Tidy(rounds, refill, worker')
    /\ status' = NoStatus
    /\ UNCHANGED << config, numCPU, fileState, stopCh, mainPc, heap, preParams, totalGenerated, totalServed,
                    isGenerating, isSaving, poolFile, started, startupDelay, crashed,
                    call, refill, saver, genCount, loaded, events, served, discards >>

\* Collector, case <-m.stopCh: log and return; the deferred function clears
\* isGenerating.
CollectStopped(r) ==
    /\ Running
    /\ refill[r].pc = "collect"
    /\ stopCh = "closed"
    /\ isGenerating' = FALSE
    /\ refill' = [refill EXCEPT ![r] = IdleRefill]
    /\ rounds' = Tidy(rounds, refill', worker)
    /\ status' = NoStatus
    /\ UNCHANGED << config, numCPU, fileState, stopCh, mainPc, heap, preParams, totalGenerated, totalServed,
                    isSaving, poolFile, started, startupDelay, crashed,
                    call, worker, saver, genCount, loaded, events, served, discards >>

\* The process is gone (it exited after Stop, or it panicked) and a new
\* process constructs a manager on the same pool directory with the same
\* configuration.
NewManager ==
    /\ mainPc = "exited"
    /\ events < MaxEvents
    /\ events' = events + 1
    /\ heap' = LoadFromDisk(fileState, poolFile).heap
    /\ preParams' = LoadFromDisk(fileState, poolFile).preParams
    /\ loaded' = LoadFromDisk(fileState, poolFile).loaded
    /\ mainPc' = "serving"
    /\ crashed' = FALSE
    /\ UNCHANGED << config, numCPU, poolFile, fileState, totalGenerated, totalServed,
                    isGenerating, isSaving, stopCh, started, startupDelay,
                    call, refill, rounds, worker, saver, status,
                    genCount, served, discards >>

(* --------------------------- specification ----------------------------- *)
\* The counts requests carry: unset, within range, and just above the limit.
RequestCounts == {0, 1, 2, 3, MaxCount + 1}

Next ==
    \/ Start
    \/ DelayElapses
    \/ Tick
    \/ GetPoolStatus
    \/ \E c \in Callers, n \in RequestCounts : ServerGetPreParams(c, n)
    \/ \E c \in Callers : CallGenerated(c)
    \/ \E c \in Callers : CallGenFailed(c)
    \/ \E c \in Callers : CallAppend(c)
    \/ \E c \in Callers : CallReturn(c)
    \/ \E r \in Refillers : RefillEnter(r)
    \/ \E r \in Refillers : RefillSize(r)
    \/ \E r \in Refillers : CollectError(r)
    \/ \E r \in Refillers : CollectParam(r)
    \/ \E r \in Refillers : CollectDone(r)
    \/ \E r \in Refillers : RefillSaveEnter(r)
    \/ \E r \in Refillers : RefillSaveWrite(r)
    \/ \E r \in Refillers : RefillSaveClear(r)
    \/ \E w \in Workers : WorkerCheck(w)
    \/ \E w \in Workers : WorkerGenerated(w)
    \/ \E w \in Workers : WorkerGenFailed(w)
    \/ \E w \in Workers : WorkerCount(w)
    \/ \E w \in Workers : WorkerSend(w)
    \/ \E s \in Savers : SaverEnter(s)
    \/ \E s \in Savers : SaverWrite(s)
    \/ \E s \in Savers : SaverClear(s)

Spec == Init /\ [][Next]_vars

\* The service followed through shutdown, crash and restart.
LifeInit == \E d \in LifeDeployments : InitFrom(d)

\* Requests arrive one at a time here and ask for one or two bundles.
LifeCallers == {1}
LifeRequestCounts == {1, 2}

LifeNext ==
    \/ Start
    \/ DelayElapses
    \/ Tick
    \/ \E c \in LifeCallers, n \in LifeRequestCounts : ServerGetPreParams(c, n)
    \/ \E c \in LifeCallers : CallGenerated(c)
    \/ \E c \in LifeCallers : CallGenFailed(c)
    \/ \E c \in LifeCallers : CallAppend(c)
    \/ \E c \in LifeCallers : CallReturn(c)
    \/ \E r \in Refillers : RefillEnter(r)
    \/ \E r \in Refillers : RefillSize(r)
    \/ \E r \in Refillers : CollectError(r)
    \/ \E r \in Refillers : CollectParam(r)
    \/ \E r \in Refillers : CollectDone(r)
    \/ \E r \in Refillers : CollectStopped(r)
    \/ \E r \in Refillers : RefillSaveEnter(r)
    \/ \E r \in Refillers : RefillSaveWrite(r)
    \/ \E r \in Refillers : RefillSaveClear(r)
    \/ \E w \in Workers : WorkerCheck(w)
    \/ \E w \in Workers : WorkerGenerated(w)
    \/ \E w \in Workers : WorkerGenFailed(w)
    \/ \E w \in Workers : WorkerCount(w)
    \/ \E w \in Workers : WorkerSend(w)
    \/ \E w \in Workers : WorkerStopped(w)
    \/ \E s \in Savers : SaverEnter(s)
    \/ \E s \in Savers : SaverWrite(s)
    \/ \E s \in Savers : SaverClear(s)
    \/ Stop
    \/ StopSaveEnter
    \/ StopSaveWrite
    \/ NewManager

LifeSpec == LifeInit /\ [][LifeNext]_vars

\* The background refill on its own: the ticker and the rounds it and Start
\* begin, every generator call succeeding.
RefillInit == \E d \in RefillDeployments : InitFrom(d)

RefillNext ==
    \/ Start
    \/ DelayElapses
    \/ Tick
    \/ \E r \in Refillers : RefillEnter(r)
    \/ \E r \in Refillers : RefillSize(r)
    \/ \E w \in Workers : WorkerCheck(w)
    \/ \E w \in Workers : WorkerGenerated(w)
    \/ \E w \in Workers : WorkerCount(w)
    \/ \E w \in Workers : WorkerSend(w)
    \/ \E r \in Refillers : CollectParam(r)
    \/ \E r \in Refillers : CollectDone(r)

\* main calls Start, time passes, the ticker keeps firing, and every goroutine
\* that can take a step is scheduled.
RefillFairness ==
    /\ WF_vars(Start)
    /\ WF_vars(DelayElapses)
    /\ WF_vars(Tick)
    /\ \A r \in Refillers :
          /\ WF_vars(RefillEnter(r))
          /\ WF_vars(RefillSize(r))
          /\ WF_vars(CollectParam(r))
          /\ WF_vars(CollectDone(r))
    /\ \A w \in Workers :
          /\ WF_vars(WorkerCheck(w))
          /\ WF_vars(WorkerGenerated(w))
          /\ WF_vars(WorkerCount(w))
          /\ WF_vars(WorkerSend(w))

RefillSpec == RefillInit /\ [][RefillNext]_vars /\ RefillFairness

TypeOK ==
    /\ preParams.n >= 0
    /\ totalServed >= 0

(* ------------------------------ properties ----------------------------- *)
\* No call is between taking from the pool and returning.
NoCallInProgress == \A c \in Callers : call[c].pc = "idle"

\* No goroutine is between loading and storing m.totalGenerated.
NoIncrementInProgress ==
    /\ \A c \in Callers : call[c].pc # "inc"
    /\ \A w \in Workers : worker[w].pc # "inc"

\* C1 -- No reuse: a bundle that has been returned to a caller is not in the
\* pool's items afterwards and is not returned to a caller a second time.
NoReuse ==
    /\ \A b \in BagToSet(served) : CopiesIn(b, served) = 1
    /\ \A i \in 1..Len(Items) : ~BagIn(Items[i], served)

\* C2 -- The pool holds between 0 and MaxPoolSize bundles in every state, and a
\* bundle the collector receives while the pool holds MaxPoolSize bundles is
\* discarded: the pool is left as it was.
PoolWithinMax ==
    /\ [](0 <= Len(Items) /\ Len(Items) <= config.MaxPoolSize)
    /\ [][\A r \in Refillers :
            CollectParam(r) /\ Len(Items) = config.MaxPoolSize =>
                Items' = Items /\ discards' = discards + 1]_vars

\* C2 (witness): a bundle has been discarded and the pool is at MaxPoolSize.
DiscardedAtMax == discards > 0 /\ Len(Items) = config.MaxPoolSize

\* C3 -- The take step of GetPreParams(n) removes min(n, depth) bundles from the
\* front of the pool, hands them over in pool order, and leaves the rest in
\* order; the pool order is deposit order, because a deposit appends at the back.
TakeIsFifo ==
    [][/\ \A c \in Callers, n \in RequestCounts :
            ServerGetPreParams(c, n) /\ Requested(n) <= MaxCount =>
                LET k == Min(Requested(n), Len(Items))
                IN  /\ Elems(heap', call'[c].result) = SubSeq(Items, 1, k)
                    /\ call'[c].taken = SubSeq(Items, 1, k)
                    /\ Items' = SubSeq(Items, k + 1, Len(Items))
       /\ \A r \in Refillers :
            CollectParam(r) /\ Len(Items) < config.MaxPoolSize =>
                Items' = Append(Items, Head(rounds[refill[r].rid].paramsCh))]_vars

\* C3 (witness): a call asking for one bundle has taken the older of two and
\* left the newer one in the pool.
TookOldestOfTwo ==
    \E c \in Callers :
        /\ call[c].pc = "ret"
        /\ call[c].count = 1
        /\ Len(call[c].taken) = 1
        /\ Len(Items) = 1
        /\ call[c].taken[1] < Items[1]

\* C4 -- A call that finds fewer bundles than it asks for, and whose generator
\* calls all succeed, returns the bundles it took followed by the bundles it
\* generated, as many as asked for; every bundle it generates raises
\* totalGenerated by one, and its return completes the rise of totalServed.
ShortfallIsGenerated ==
    [][\A c \in Callers :
          /\ CallAppend(c) => totalGenerated' = totalGenerated + 1
          /\ CallReturn(c) /\ Len(call[c].taken) < call[c].count =>
                /\ call'[c].delivered = call[c].taken \o call[c].gens
                /\ Len(call'[c].delivered) = call[c].count
                /\ totalServed' = totalServed + Len(call[c].gens)]_vars

\* C5 -- When a generator call fails during a shortfall the call ends with
\* Internal and no bundle list; the pool is left alone, and holds neither a
\* bundle the call took nor a bundle the call generated before the failure.
FailureLeavesPool ==
    [][\A c \in Callers :
          CallGenFailed(c) =>
              /\ call'[c].err = "Internal"
              /\ call'[c].delivered = <<>>
              /\ Items' = Items
              /\ \A i \in 1..Len(Items') :
                    /\ \A j \in 1..Len(call[c].taken) : Items'[i] # call[c].taken[j]
                    /\ \A j \in 1..Len(call[c].gens) : Items'[i] # call[c].gens[j]]_vars

\* C6 -- Whenever no call is in progress, totalServed is the number of bundles
\* that have been returned to callers.
ServedCountsReturned ==
    NoCallInProgress => totalServed = BagCardinality(served)

\* C7 -- Whenever no increment is in progress, totalGenerated is the number of
\* generator calls that have returned a bundle.
GeneratedCountsSuccesses ==
    NoIncrementInProgress => totalGenerated = genCount

\* C8 -- A status snapshot never shows more bundles served than generated plus
\* loaded from disk.
SnapshotServedBounded ==
    status.valid => status.total_served <= status.total_generated + loaded

\* C9 -- Neither counter's stored value decreases in a step.
CountersMonotone ==
    [][totalServed' >= totalServed /\ totalGenerated' >= totalGenerated]_vars

\* C10 -- A request for more than MaxCount bundles ends with InvalidArgument
\* and nothing else happens: pool, counters, refill goroutines, rounds,
\* workers, savers and the pool file are as before.
OversizeRejected ==
    [][\A c \in Callers, n \in RequestCounts :
          ServerGetPreParams(c, n) /\ n > MaxCount =>
              /\ call'[c].err = "InvalidArgument"
              /\ call'[c].delivered = <<>>
              /\ Items' = Items
              /\ UNCHANGED << preParams, totalServed, totalGenerated, refill, rounds,
                              worker, saver, isGenerating, isSaving, poolFile >>]_vars

\* C10 (witness): an oversize request has been rejected while the pool held a
\* bundle and was at or below the refill threshold.
RejectedWhileLow ==
    \E c \in Callers :
        /\ call[c].err = "InvalidArgument"
        /\ Len(Items) > 0
        /\ Len(Items) <= config.RefillThreshold

\* C11 -- A request carrying count 0 is the same step as a request carrying
\* count 1 from the same state: it is handled as a request for one bundle, takes
\* one bundle when the pool has one, decides the refill trigger on the depth it
\* finds, and the call returns one bundle and has raised totalServed by one.
ZeroCountIsOne ==
    [][\A c \in Callers :
          /\ ServerGetPreParams(c, 0) <=> ServerGetPreParams(c, 1)
          /\ ServerGetPreParams(c, 0) =>
                /\ call'[c].count = 1
                /\ Len(call'[c].taken) = Min(1, Len(Items))
                /\ call'[c].trig = (Len(Items) <= config.RefillThreshold)
                /\ totalServed' = totalServed + Len(call'[c].taken)
          /\ CallReturn(c) /\ call[c].count = 1 =>
                /\ Len(call'[c].delivered) = 1
                /\ totalServed' = totalServed + (1 - Len(call[c].taken))]_vars

\* C11 (witness): the first request, for one bundle (count 0 or 1), has
\* returned its bundle.
OneBundleReturned ==
    \E c \in Callers :
        /\ call[c].pc = "idle"
        /\ Len(call[c].delivered) = 1
        /\ totalServed = 1
        /\ events = 1

\* The pool a manager constructed on this pool directory starts with.
LoadedItems(fstate, f) ==
    Elems(LoadFromDisk(fstate, f).heap, LoadFromDisk(fstate, f).preParams)

\* A saveToDisk call writes the file.
SaveWrites ==
    \/ \E s \in Savers : SaverWrite(s)
    \/ \E r \in Refillers : RefillSaveWrite(r)
    \/ StopSaveWrite

\* C12 -- Persistence round trip: what a save writes loads back as the pool's
\* items at the time of the save, in order; a manager constructed on the pool
\* directory holds what the file loads as, with that depth; and a request for
\* as many bundles as the pool holds takes all of them in order.
SaveLoadRoundTrip ==
    [][/\ SaveWrites => LoadedItems(fileState', poolFile') = Items
       /\ NewManager =>
            /\ Items' = LoadedItems(fileState, poolFile)
            /\ preParams'.n = Len(LoadedItems(fileState, poolFile))
       /\ \A c \in Callers, n \in RequestCounts :
            ServerGetPreParams(c, n) /\ n >= 1 /\ n = Len(Items) =>
                call'[c].taken = Items /\ Items' = <<>>]_vars

\* C12 (witness): a manager that has generated nothing itself has handed a
\* request its whole pool, which is what the file holds and includes a bundle
\* generated and saved before the restart.
RoundTripServed ==
    \E c \in Callers :
        /\ call[c].pc = "ret"
        /\ totalGenerated = 0
        /\ genCount > 0
        /\ call[c].taken = UnmarshalFile(poolFile)
        /\ \E i \in 1..Len(call[c].taken) : call[c].taken[i] = BundleId(1)

\* C13 -- A manager constructed from a pool file holds the file's fully
\* populated entries, in order: an entry in which a large-integer field is
\* missing has been dropped.
IncompleteEntriesDropped ==
    ~started /\ mainPc = "serving" /\ fileState = "json" =>
        Items = SelectSeq(UnmarshalFile(poolFile), LAMBDA b : b > 0)

\* C14 -- The pool holds at most MaxPoolSize bundles in every state of a
\* manager's life, the state right after construction from a pool file included.
DepthWithinMaxFromFile == Len(Items) <= config.MaxPoolSize

\* C15 -- A manager constructed when the pool file is absent, unreadable or
\* unparseable is up with an empty pool and zero counters, and nothing has
\* failed; a request that finds the pool empty goes on to generate, and when it
\* returns it delivers as many bundles as were asked for, all of them generated
\* within the call.
MissingFileStartsEmpty ==
    /\ [](~started /\ mainPc = "serving" /\ fileState # "json" =>
            /\ Items = <<>>
            /\ preParams.n = 0
            /\ totalGenerated = 0 /\ totalServed = 0
            /\ ~crashed)
    /\ [][/\ NewManager /\ fileState # "json" =>
                mainPc' = "serving" /\ ~crashed' /\ Items' = <<>>
          /\ \A c \in Callers, n \in RequestCounts :
                ServerGetPreParams(c, n) /\ CountValid(Requested(n))
                                         /\ Items = <<>> =>
                    call'[c].pc = "gen" /\ call'[c].taken = <<>>
          /\ \A c \in Callers :
                CallReturn(c) /\ call[c].taken = <<>> =>
                    /\ call'[c].delivered = call[c].gens
                    /\ Len(call'[c].delivered) = call[c].count
                    /\ call'[c].err = IdleCall.err]_vars

\* C15 (witness): the pool file is still absent, unreadable or unparseable and
\* a request has returned bundles it generated itself.
ServedWithoutFile ==
    \E c \in Callers :
        /\ fileState # "json"
        /\ mainPc = "serving"
        /\ call[c].pc = "idle"
        /\ Len(call[c].delivered) >= 1
        /\ totalServed = Len(call[c].delivered)
        /\ totalGenerated >= 1

\* C16 -- When Stop returns (and the process exits after it), the pool file
\* holds the pool's items as they are at shutdown, whatever save was in flight
\* when Stop called saveToDisk.
StopSavesPool ==
    [][(StopSaveEnter \/ StopSaveWrite) /\ mainPc' = "exited" =>
            /\ fileState' = "json"
            /\ LoadedItems(fileState', poolFile') = Items]_vars

\* C17 -- No generation or shutdown event ends the process: in particular a
\* refill round that ends with no bundle deposited returns normally.
RoundEndIsNotFatal ==
    /\ [](~crashed)
    /\ [][\A r \in Refillers :
            CollectDone(r) => ~crashed' /\ refill'[r].pc \in {"idle", "save"}]_vars

\* C18 -- Once shutdown has been signalled (stopCh is closed), a GetPreParams
\* call that is generating a shortfall generates no further bundle: its next
\* step ends the call with an error (Canceled, or Internal when the generator
\* itself reports the failure).
CancelledWhenStopped ==
    [][\A c \in Callers :
          stopCh = "closed" /\ call[c].pc = "gen" /\ call'[c] # call[c] =>
              /\ call'[c].pc = "idle"
              /\ call'[c].err \in {"Canceled", "Internal"}
              /\ genCount' = genCount]_vars

\* The saveToDisk calls that have passed the test of isSaving and have not
\* cleared it again.
SavesInFlight ==
    Cardinality({ s \in Savers : saver[s] \in {"write", "clear"} })
      + Cardinality({ r \in Refillers : refill[r].pc \in {"write", "clear"} })
      + (IF mainPc = "write" THEN 1 ELSE 0)

\* C19 -- At most one save is in flight in every state, and isSaving is set
\* exactly while one is; a saveToDisk call that arrives while a save is in
\* progress (from a go m.saveToDisk() goroutine, from the end of a refill
\* round, or from Stop) returns in that step, leaving the file and the running
\* save as they are.
OneSaveInFlight ==
    /\ [](SavesInFlight <= 1 /\ (isSaving <=> SavesInFlight = 1))
    /\ [][/\ \A s \in Savers :
                SaverEnter(s) /\ isSaving =>
                    /\ saver'[s] = "idle"
                    /\ poolFile' = poolFile /\ isSaving'
                    /\ SavesInFlight' = SavesInFlight
          /\ \A r \in Refillers :
                RefillSaveEnter(r) /\ isSaving =>
                    /\ refill'[r].pc = "idle"
                    /\ poolFile' = poolFile /\ isSaving'
                    /\ SavesInFlight' = SavesInFlight
          /\ StopSaveEnter /\ isSaving =>
                mainPc' = "exited" /\ poolFile' = poolFile]_vars

\* C19 (witness): one save is writing and another saveToDisk call has arrived.
SaveArrivedDuringSave ==
    /\ isSaving
    /\ SavesInFlight = 1
    /\ \/ mainPc = "save"
       \/ \E r \in Refillers : refill[r].pc = "save"
       \/ \E s \in Savers : saver[s] = "enter"

\* C20 -- The pool-status response has exactly one pools entry, keyed by the
\* configured prime bit size (and "true"), with bits the configured prime bit
\* size, available the pool's depth, target_size MinPoolSize and generating
\* non-zero exactly when a refill round is active; total_generated and
\* total_served are the manager's counters.
StatusDescribesPool ==
    status.valid =>
        LET resp == ServerPoolStatus(status)
        IN  /\ Cardinality(resp.pools) = 1
            /\ \A p \in resp.pools :
                 /\ p.key = << config.PrimeBitSize, TRUE >>
                 /\ p.bits = config.PrimeBitSize
                 /\ p.available = Len(Items)
                 /\ p.target_size = config.MinPoolSize
                 /\ (p.generating # 0) <=> isGenerating
            /\ resp.total_generated = totalGenerated
            /\ resp.total_served = totalServed

\* The refillPool invocations that have passed the test of isGenerating and
\* have not returned.
PastGeneratingCheck == { r \in Refillers : refill[r].pc \notin {"idle", "enter"} }

\* C21 -- At most one refillPool invocation is past the isGenerating check in
\* every state, and isGenerating is set while one is; an invocation that finds
\* isGenerating set returns in that step: it starts no worker, makes no channel
\* and deposits nothing.
OneRoundAtATime ==
    /\ [](Cardinality(PastGeneratingCheck) <= 1
            /\ (PastGeneratingCheck # {} => isGenerating))
    /\ [][\A r \in Refillers :
            RefillEnter(r) /\ isGenerating =>
                /\ refill'[r] = IdleRefill
                /\ worker' = worker /\ rounds' = rounds
                /\ Items' = Items /\ genCount' = genCount
                /\ isGenerating']_vars

\* C21 (witness): a round is collecting and another refillPool invocation has
\* arrived.
RefillArrivedDuringRound ==
    \E r, q \in Refillers :
        /\ r # q
        /\ refill[r].pc = "enter"
        /\ refill[q].pc = "collect"
        /\ ~startupDelay
        /\ isGenerating

\* The refill workers that have not returned.
RefillWorkersRunning == { w \in Workers : worker[w].pc # "idle" }

\* C22 -- The refill workers running never outnumber MaxConcurrent as clamped
\* by the CPU rule, and isGenerating is clear only when every refill worker
\* has returned, also after a round that ended on a generator error or on the
\* stop signal.
WorkersWithinLimit ==
    /\ Cardinality(RefillWorkersRunning)
         <= EffectiveConcurrent(config.MaxConcurrent, numCPU, config.MaxConcurrent)
    /\ ~isGenerating => RefillWorkersRunning = {}

\* C23 -- During the startup delay (the first 10 seconds after construction)
\* a refillPool invocation returns in its first step, leaving isGenerating,
\* the workers, the generator and the pool as they are; so throughout the delay
\* no round is active and no refill worker runs, whatever the depth.
WarmUpSuppressesRefill ==
    /\ [](startupDelay =>
            /\ ~isGenerating
            /\ PastGeneratingCheck = {}
            /\ RefillWorkersRunning = {})
    /\ [][\A r \in Refillers :
            RefillEnter(r) /\ startupDelay =>
                /\ refill'[r] = IdleRefill
                /\ isGenerating' = isGenerating
                /\ worker' = worker /\ rounds' = rounds
                /\ genCount' = genCount
                /\ Items' = Items]_vars

\* C23 (witness): Start found the pool empty and requested the initial fill,
\* the request has returned within the startup delay, and nothing was generated.
InitialFillSkipped ==
    /\ started /\ startupDelay
    /\ events = 0 /\ genCount = 0
    /\ preParams.n = 0
    /\ preParams.n < config.RefillThreshold
    /\ \A r \in Refillers : refill[r].pc = "idle"
    /\ ~isGenerating

\* C24 -- A GetPreParams call requests a refill round exactly when the pool's
\* depth after its take is at or below RefillThreshold.
RefillRequestedAfterTake ==
    [][\A c \in Callers, n \in RequestCounts :
          ServerGetPreParams(c, n) /\ CountValid(Requested(n)) =>
              (call'[c].trig <=> Len(Items') <= config.RefillThreshold)]_vars

RoundFillsToMin ==
    [][\A r \in Refillers :
          /\ CollectParam(r) => (Len(Items') > Len(Items) => Len(Items) < config.MinPoolSize)
          /\ CollectDone(r) => Len(Items) = config.MinPoolSize]_vars

\* C27 -- Shutdown quiescence: at the moment Stop returns, no refill worker
\* and no collector of any round is still running.
StopLeavesNothingRunning ==
    [][(StopSaveEnter \/ StopSaveWrite) /\ mainPc' = "exited" =>
            /\ RefillWorkersRunning = {}
            /\ PastGeneratingCheck = {}]_vars

\* C28 -- Coalesced saves never lose the latest state: with AutoSave on, once
\* every GetPreParams call (each having returned its bundles), every refill
\* round, every worker and every save has finished, the pool file holds exactly
\* the pool's items.
FileCurrentWhenQuiet ==
    (/\ config.AutoSave
     /\ Running /\ mainPc = "serving"
     /\ \A c \in Callers : call[c].pc = "idle" /\ call[c].err = IdleCall.err
     /\ \A r \in Refillers : refill[r].pc = "idle"
     /\ RefillWorkersRunning = {}
     /\ \A s \in Savers : saver[s] = "idle"
     /\ ~isSaving)
        => LoadedItems(fileState, poolFile) = Items

\* C29 -- saveToDisk does not hold the pool lock while it writes the file: at
\* every step that writes the file, m.mu is not held by the save.
SaveWritesUnlocked == [][SaveWrites => ~MuReadHeld]_vars

\* C30 -- Every constructed manager's configuration satisfies
\* RefillThreshold <= MinPoolSize <= MaxPoolSize and MaxConcurrent >= 1.
ConfigConstraintHolds ==
    mainPc = "serving" =>
        /\ config.RefillThreshold <= config.MinPoolSize
        /\ config.MinPoolSize <= config.MaxPoolSize
        /\ config.MaxConcurrent >= 1

\* C31 -- With AutoSave off, no GetPreParams call, deposit or end of a round
\* schedules or performs a save: no save goroutine exists, no refillPool
\* invocation is saving, and the only step that changes the pool file is the
\* write of Stop's final save.
FileOnlyWrittenByStop ==
    /\ [](~config.AutoSave =>
            /\ \A s \in Savers : saver[s] = "idle"
            /\ \A r \in Refillers : refill[r].pc \notin {"save", "write", "clear"})
    /\ [][~config.AutoSave /\ (poolFile' # poolFile \/ fileState' # fileState)
              => StopSaveWrite]_vars

\* C31 (witness): with AutoSave off and no pool file, bundles have been
\* deposited and handed out, every round has ended, and there is still no file.
NoFileWithoutAutoSave ==
    /\ ~config.AutoSave
    /\ mainPc = "serving"
    /\ fileState = "absent"
    /\ totalServed > 0
    /\ Len(Items) > 0
    /\ \A r \in Refillers : refill[r].pc = "idle"
    /\ RefillWorkersRunning = {}
    /\ \A c \in Callers : call[c].pc = "idle"

BundlesConserved ==
    [][\/ /\ \E c \in Callers, n \in RequestCounts : ServerGetPreParams(c, n)
          /\ \E k \in 0..Len(Items) : Items' = SubSeq(Items, k + 1, Len(Items))
       \/ /\ \E r \in Refillers : CollectParam(r)
          /\ Len(Items') = Len(Items) + 1
          /\ SubSeq(Items', 1, Len(Items)) = Items
       \/ Items' = Items
       \/ mainPc' = "exited"]_vars

====
